---------------------------- MODULE Spec2Model ----------------------------
(***************************************************************************)
(* Metro News Scraper (metro_news_scraper_enriched.py): the listing        *)
(* extractor, the keyword enrichment, the CSV merge/dedupe/sort and the    *)
(* orchestrator, as a state machine.                                       *)
(*                                                                         *)
(* Text is a sequence of characters, each a one-character string, so that  *)
(* substring tests, lower-casing, whitespace normalisation and the         *)
(* word-boundary search of the code are computed character by character.   *)
(* A character outside ASCII is written by its code point: "U+00F6" is o   *)
(* with diaeresis.                                                         *)
(***************************************************************************)
EXTENDS Naturals, Integers, Sequences, FiniteSets, TLC

VARIABLES
    pc,        \* position of main(): "loop", "check", "done", "crashed"
    run,       \* number of the current invocation of main()
    idx,       \* index into SOURCES of the source processed next
    all_rows,  \* main(): the accumulating list of rows
    file,      \* content of OUTPUT_CSV on disk: Absent, Malformed or rows
    file0,     \* content of OUTPUT_CSV when the current run started
    out,       \* lines printed to standard output by the current run
    trace,     \* the current run's events, in order: <<"source", i>> (parse_list
               \* of SOURCES[i] begins), <<"sleep", i>> (the sleep after it),
               \* <<"load", 0>> (write_csv looks for the file and loads it),
               \* <<"to_csv", 0>> (write_csv writes the file)
    fn,        \* pure-function harnesses: the function applied, "" before
    arg,       \* pure-function harnesses: the inputs
    ret        \* pure-function harnesses: the result

vars == <<pc, run, idx, all_rows, file, file0, out, trace, fn, arg, ret>>

---------------------------------------------------------------------------
(* Characters and strings *)

Range(s) == {s[i] : i \in DOMAIN s}

\* Characters that str.lower() and the IGNORECASE flag map, with their images.
UpperChars ==
    <<"A","B","C","D","E","F","G","H","I","J","K","L","M","N","O","P","Q","R","S","T",
      "U","V","W","X","Y","Z","U+00C4","U+00D6","U+00DC","U+00C9","U+00C3","U+00D3","U+00D8","U+0143">>

LowerChars ==
    <<"a","b","c","d","e","f","g","h","i","j","k","l","m","n","o","p","q","r","s","t",
      "u","v","w","x","y","z","U+00E4","U+00F6","U+00FC","U+00E9","U+00E3","U+00F3","U+00F8","U+0144">>

LowerMap == [c \in Range(UpperChars) |->
                LowerChars[CHOOSE i \in DOMAIN UpperChars : UpperChars[i] = c]]

\* str.lower(), one character (the modelled alphabet has no character whose
\* lower-case form is longer than one character).
lower_char(c) == IF c \in DOMAIN LowerMap THEN LowerMap[c] ELSE c

\* str.lower()
lower(t) == [i \in DOMAIN t |-> lower_char(t[i])]

\* re.IGNORECASE: two characters match when their simple lower-case forms
\* agree; U+0130 (of the city Izmir with a dotted capital I) folds to "i".
fold_char(c) == IF c = "U+0130" THEN "i" ELSE lower_char(c)

\* The regular expression class \s, over the modelled alphabet.
Whitespace == {" ", "\t", "\n", "\r"}

\* The complement of the regular expression class \w, over the modelled
\* alphabet: letters (accented ones included), digits and "_" are word
\* characters.
NonWordChars ==
    Whitespace \cup {"-", "U+2011", "/", ".", ",", ":", ";", "'", "\"", "(", ")", "[", "]",
                     "!", "?", "&", "=", "#", "%", "+", "*", "<", ">", "|", "@"}

is_word_char(c) == c \notin NonWordChars

\* k in t  (Python substring test)
Contains(k, t) ==
    \E i \in 1..(Len(t) - Len(k) + 1) : \A j \in 1..Len(k) : t[i + j - 1] = k[j]

\* any(k in t for k in keys)
AnyIn(keys, t) == \E n \in DOMAIN keys : Contains(keys[n], t)

RECURSIVE collapse_ws(_, _)
\* re.sub(r"\s+", " ", text): every maximal run of whitespace becomes one space
collapse_ws(t, i) ==
    IF i > Len(t) THEN <<>>
    ELSE IF t[i] \in Whitespace
         THEN IF i > 1 /\ t[i - 1] \in Whitespace
              THEN collapse_ws(t, i + 1)
              ELSE <<" ">> \o collapse_ws(t, i + 1)
         ELSE <<t[i]>> \o collapse_ws(t, i + 1)

RECURSIVE strip(_)
\* str.strip()
strip(s) ==
    IF s = <<>> THEN s
    ELSE IF s[1] \in Whitespace THEN strip(Tail(s))
    ELSE IF s[Len(s)] \in Whitespace THEN strip(SubSeq(s, 1, Len(s) - 1))
    ELSE s

\* clean(text); None and "" are both the empty sequence
clean(text) == IF text = <<>> THEN <<>> ELSE strip(collapse_ws(text, 1))

RECURSIVE Join(_, _)
\* sep.join(parts)
Join(sep, parts) ==
    IF parts = <<>> THEN <<>>
    ELSE IF Len(parts) = 1 THEN parts[1]
    ELSE parts[1] \o sep \o Join(sep, Tail(parts))

---------------------------------------------------------------------------
(* Konfiguration *)

\* Projekttypen (de/en): mode tag -> keywords, in declaration order
TYPE_MAP ==
  <<
    <<<<"m","e","t","r","o">>, <<
        <<"m","e","t","r","o">>, <<"u","-","b","a","h","n">>, <<"s","u","b","w","a","y">>,
        <<"u","n","d","e","r","g","r","o","u","n","d">>, <<"u","b","e">>,
        <<"u","U+2011","b","a","h","n">> >> >>,
    <<<<"l","r","t">>, <<
        <<"l","i","g","h","t"," ","r","a","i","l">>, <<"l","r","v">>, <<"t","r","a","m">>,
        <<"t","r","a","m","w","a","y">>, <<"s","t","r","a","U+00DF","e","n","b","a","h","n">>,
        <<"s","t","r","e","e","t","c","a","r">> >> >>,
    <<<<"s","-","b","a","h","n">>, <<
        <<"s","-","b","a","h","n">>, <<"s","b","a","h","n">>,
        <<"c","o","m","m","u","t","e","r"," ","r","a","i","l">>,
        <<"r","U+00E9","g","i","o","n","a","l"," ","e","x","p","r","e","s","s">> >> >>,
    <<<<"m","o","n","o","r","a","i","l">>, <<
        <<"m","o","n","o","r","a","i","l">> >> >>,
    <<<<"b","r","t">>, <<
        <<"b","r","t">>, <<"b","u","s"," ","r","a","p","i","d"," ","t","r","a","n","s","i","t">> >> >>
  >>

\* infrastructure keywords
TYPE_INFRA ==
  <<
    <<"e","x","t","e","n","s","i","o","n">>, <<"e","x","t","e","n","d">>,
    <<"v","e","r","l","U+00E4","n","g","e","r","u","n","g">>,
    <<"n","e","u","b","a","u","s","t","r","e","c","k","e">>, <<"t","u","n","n","e","l">>,
    <<"t","u","n","n","e","l","i","n","g">>, <<"s","t","a","t","i","o","n">>,
    <<"b","a","h","n","h","o","f">>, <<"s","i","g","n","a","l","l","i","n","g">>,
    <<"c","b","t","c">>, <<"e","l","e","c","t","r","i","f","i","c","a","t","i","o","n">>,
    <<"u","p","g","r","a","d","e">>, <<"d","e","p","o","t">>, <<"v","i","a","d","u","c","t">>,
    <<"c","i","v","i","l"," ","w","o","r","k","s">>,
    <<"c","o","n","s","t","r","u","c","t","i","o","n">>, <<"b","a","u">>,
    <<"i","n","b","e","t","r","i","e","b","n","a","h","m","e">>,
    <<"c","o","m","m","i","s","s","i","o","n","i","n","g">>, <<"o","p","e","n","i","n","g">>,
    <<"e","r","U+00F6","f","f","n","u","n","g">>, <<"i","n","t","e","r","c","h","a","n","g","e">>,
    <<"p","l","a","t","f","o","r","m">>, <<"r","o","u","t","e">>,
    <<"a","l","i","g","n","m","e","n","t">>, <<"d","o","u","b","l","e"," ","t","r","a","c","k">>
  >>

\* fleet keywords
TYPE_FLEET ==
  <<
    <<"f","l","e","e","t">>, <<"r","o","l","l","i","n","g"," ","s","t","o","c","k">>,
    <<"f","a","h","r","z","e","u","g","e">>, <<"f","a","h","r","z","e","u","g">>, <<"z","u","g">>,
    <<"z","U+00FC","g","e">>, <<"t","r","a","i","n">>, <<"t","r","a","i","n","s">>,
    <<"w","a","g","e","n">>, <<"c","a","r","s">>, <<"c","a","r","r","i","a","g","e","s">>,
    <<"e","m","u">>, <<"d","m","u">>, <<"m","u","l","t","i","p","l","e"," ","u","n","i","t">>,
    <<"b","o","g","i","e">>, <<"b","o","g","i","e","s">>, <<"o","r","d","e","r">>,
    <<"b","e","s","t","e","l","l","u","n","g">>, <<"d","e","l","i","v","e","r","y">>,
    <<"l","i","e","f","e","r","u","n","g">>, <<"s","u","p","p","l","i","e","r">>,
    <<"m","a","n","u","f","a","c","t","u","r","e","r">>, <<"t","r","a","i","n","s","e","t">>
  >>

\* Status (de/en): status -> keywords, in declaration order
STATUS_KEYS ==
  <<
    <<<<"P","l","a","n","u","n","g">>, <<
        <<"p","l","a","n">>, <<"r","f","p">>, <<"t","e","n","d","e","r">>,
        <<"p","r","o","c","u","r","e">>, <<"s","t","u","d","i","e">>, <<"s","t","u","d","y">>,
        <<"d","e","s","i","g","n">>, <<"f","e","a","s","i","b","i","l","i","t","y">>,
        <<"p","r","o","p","o","s","e","d">>, <<"a","p","p","r","o","v","a","l">>,
        <<"g","e","n","e","h","m","i","g","u","n","g">> >> >>,
    <<<<"B","a","u">>, <<
        <<"b","u","i","l","d">>, <<"c","o","n","s","t","r","u","c","t","i","o","n">>,
        <<"w","o","r","k","s"," ","s","t","a","r","t">>,
        <<"g","r","o","u","n","d","b","r","e","a","k","i","n","g">>,
        <<"c","i","v","i","l"," ","w","o","r","k","s">>,
        <<"i","n","s","t","a","l","l","a","t","i","o","n">>, <<"i","m"," ","b","a","u">>,
        <<"b","a","u","b","e","g","i","n","n">> >> >>,
    <<<<"E","r","U+00F6","f","f","n","u","n","g">>, <<
        <<"o","p","e","n">>, <<"o","p","e","n","i","n","g">>,
        <<"c","o","m","m","i","s","s","i","o","n">>,
        <<"e","n","t","e","r"," ","s","e","r","v","i","c","e">>,
        <<"i","n"," ","o","p","e","r","a","t","i","o","n">>,
        <<"s","e","r","v","i","c","e"," ","s","t","a","r","t","s">>,
        <<"e","r","U+00F6","f","f","n","u","n","g">>, <<"b","e","t","r","i","e","b">> >> >>,
    <<<<"V","e","r","z","U+00F6","g","e","r","u","n","g">>, <<
        <<"d","e","l","a","y">>, <<"p","o","s","t","p","o","n","e">>, <<"h","a","l","t","e","d">>,
        <<"s","u","s","p","e","n","d","e","d">>, <<"o","v","e","r","r","u","n">>,
        <<"v","e","r","z","U+00F6","g","e","r","u","n","g">>,
        <<"v","e","r","s","c","h","o","b","e","n">> >> >>,
    <<<<"F","i","n","a","n","z","i","e","r","u","n","g">>, <<
        <<"f","u","n","d","i","n","g">>, <<"f","i","n","a","n","c","e">>, <<"l","o","a","n">>,
        <<"g","r","a","n","t">>, <<"b","u","d","g","e","t">>, <<"p","p","p">>,
        <<"f","i","n","a","n","z","i","e","r","u","n","g">>,
        <<"f","U+00F6","r","d","e","r","u","n","g">> >> >>
  >>

\* Stadt -> Land, in declaration order: <<city, country>>
CITY_TO_COUNTRY ==
  <<
    <<<<"B","e","r","l","i","n">>, <<"G","e","r","m","a","n","y">>>>,
    <<<<"H","a","m","b","u","r","g">>, <<"G","e","r","m","a","n","y">>>>,
    <<<<"M","U+00FC","n","c","h","e","n">>, <<"G","e","r","m","a","n","y">>>>,
    <<<<"M","u","n","i","c","h">>, <<"G","e","r","m","a","n","y">>>>,
    <<<<"F","r","a","n","k","f","u","r","t">>, <<"G","e","r","m","a","n","y">>>>,
    <<<<"K","U+00F6","l","n">>, <<"G","e","r","m","a","n","y">>>>,
    <<<<"C","o","l","o","g","n","e">>, <<"G","e","r","m","a","n","y">>>>,
    <<<<"S","t","u","t","t","g","a","r","t">>, <<"G","e","r","m","a","n","y">>>>,
    <<<<"L","e","i","p","z","i","g">>, <<"G","e","r","m","a","n","y">>>>,
    <<<<"N","U+00FC","r","n","b","e","r","g">>, <<"G","e","r","m","a","n","y">>>>,
    <<<<"W","i","e","n">>, <<"A","u","s","t","r","i","a">>>>,
    <<<<"V","i","e","n","n","a">>, <<"A","u","s","t","r","i","a">>>>,
    <<<<"G","r","a","z">>, <<"A","u","s","t","r","i","a">>>>,
    <<<<"L","i","n","z">>, <<"A","u","s","t","r","i","a">>>>,
    <<<<"Z","U+00FC","r","i","c","h">>, <<"S","w","i","t","z","e","r","l","a","n","d">>>>,
    <<<<"Z","u","r","i","c","h">>, <<"S","w","i","t","z","e","r","l","a","n","d">>>>,
    <<<<"G","e","n","f">>, <<"S","w","i","t","z","e","r","l","a","n","d">>>>,
    <<<<"G","e","n","e","v","a">>, <<"S","w","i","t","z","e","r","l","a","n","d">>>>,
    <<<<"B","a","s","e","l">>, <<"S","w","i","t","z","e","r","l","a","n","d">>>>,
    <<<<"P","a","r","i","s">>, <<"F","r","a","n","c","e">>>>,
    <<<<"L","y","o","n">>, <<"F","r","a","n","c","e">>>>,
    <<<<"M","a","r","s","e","i","l","l","e">>, <<"F","r","a","n","c","e">>>>,
    <<<<"L","i","l","l","e">>, <<"F","r","a","n","c","e">>>>,
    <<<<"R","e","n","n","e","s">>, <<"F","r","a","n","c","e">>>>,
    <<<<"T","o","u","l","o","u","s","e">>, <<"F","r","a","n","c","e">>>>,
    <<<<"M","a","d","r","i","d">>, <<"S","p","a","i","n">>>>,
    <<<<"B","a","r","c","e","l","o","n","a">>, <<"S","p","a","i","n">>>>,
    <<<<"V","a","l","e","n","c","i","a">>, <<"S","p","a","i","n">>>>,
    <<<<"S","e","v","i","l","l","a">>, <<"S","p","a","i","n">>>>,
    <<<<"S","e","v","i","l","l","e">>, <<"S","p","a","i","n">>>>,
    <<<<"B","i","l","b","a","o">>, <<"S","p","a","i","n">>>>,
    <<<<"L","o","n","d","o","n">>, <<"U","n","i","t","e","d"," ","K","i","n","g","d","o","m">>>>,
    <<<<"B","i","r","m","i","n","g","h","a","m">>, <<"U","n","i","t","e","d"," ","K","i","n","g","d","o","m">>>>,
    <<<<"M","a","n","c","h","e","s","t","e","r">>, <<"U","n","i","t","e","d"," ","K","i","n","g","d","o","m">>>>,
    <<<<"G","l","a","s","g","o","w">>, <<"U","n","i","t","e","d"," ","K","i","n","g","d","o","m">>>>,
    <<<<"E","d","i","n","b","u","r","g","h">>, <<"U","n","i","t","e","d"," ","K","i","n","g","d","o","m">>>>,
    <<<<"R","o","m","a">>, <<"I","t","a","l","y">>>>,
    <<<<"R","o","m","e">>, <<"I","t","a","l","y">>>>,
    <<<<"M","i","l","a","n","o">>, <<"I","t","a","l","y">>>>,
    <<<<"M","i","l","a","n">>, <<"I","t","a","l","y">>>>,
    <<<<"N","a","p","o","l","i">>, <<"I","t","a","l","y">>>>,
    <<<<"N","a","p","l","e","s">>, <<"I","t","a","l","y">>>>,
    <<<<"T","o","r","i","n","o">>, <<"I","t","a","l","y">>>>,
    <<<<"T","u","r","i","n">>, <<"I","t","a","l","y">>>>,
    <<<<"W","a","r","s","z","a","w","a">>, <<"P","o","l","a","n","d">>>>,
    <<<<"W","a","r","s","a","w">>, <<"P","o","l","a","n","d">>>>,
    <<<<"K","r","a","k","U+00F3","w">>, <<"P","o","l","a","n","d">>>>,
    <<<<"K","r","a","k","o","w">>, <<"P","o","l","a","n","d">>>>,
    <<<<"G","d","a","U+0144","s","k">>, <<"P","o","l","a","n","d">>>>,
    <<<<"G","d","a","n","s","k">>, <<"P","o","l","a","n","d">>>>,
    <<<<"P","r","a","h","a">>, <<"C","z","e","c","h"," ","R","e","p","u","b","l","i","c">>>>,
    <<<<"P","r","a","g","u","e">>, <<"C","z","e","c","h"," ","R","e","p","u","b","l","i","c">>>>,
    <<<<"B","r","n","o">>, <<"C","z","e","c","h"," ","R","e","p","u","b","l","i","c">>>>,
    <<<<"O","s","t","r","a","v","a">>, <<"C","z","e","c","h"," ","R","e","p","u","b","l","i","c">>>>,
    <<<<"B","u","d","a","p","e","s","t">>, <<"H","u","n","g","a","r","y">>>>,
    <<<<"D","e","b","r","e","c","e","n">>, <<"H","u","n","g","a","r","y">>>>,
    <<<<"S","z","e","g","e","d">>, <<"H","u","n","g","a","r","y">>>>,
    <<<<"L","i","s","b","o","a">>, <<"P","o","r","t","u","g","a","l">>>>,
    <<<<"L","i","s","b","o","n">>, <<"P","o","r","t","u","g","a","l">>>>,
    <<<<"P","o","r","t","o">>, <<"P","o","r","t","u","g","a","l">>>>,
    <<<<"O","s","l","o">>, <<"N","o","r","w","a","y">>>>,
    <<<<"S","t","o","c","k","h","o","l","m">>, <<"S","w","e","d","e","n">>>>,
    <<<<"G","U+00F6","t","e","b","o","r","g">>, <<"S","w","e","d","e","n">>>>,
    <<<<"G","o","t","h","e","n","b","u","r","g">>, <<"S","w","e","d","e","n">>>>,
    <<<<"M","a","l","m","U+00F6">>, <<"S","w","e","d","e","n">>>>,
    <<<<"K","U+00F8","b","e","n","h","a","v","n">>, <<"D","e","n","m","a","r","k">>>>,
    <<<<"C","o","p","e","n","h","a","g","e","n">>, <<"D","e","n","m","a","r","k">>>>,
    <<<<"A","a","r","h","u","s">>, <<"D","e","n","m","a","r","k">>>>,
    <<<<"H","e","l","s","i","n","k","i">>, <<"F","i","n","l","a","n","d">>>>,
    <<<<"T","a","m","p","e","r","e">>, <<"F","i","n","l","a","n","d">>>>,
    <<<<"A","t","h","e","n","s">>, <<"G","r","e","e","c","e">>>>,
    <<<<"T","h","e","s","s","a","l","o","n","i","k","i">>, <<"G","r","e","e","c","e">>>>,
    <<<<"I","s","t","a","n","b","u","l">>, <<"T","u","r","k","e","y">>>>,
    <<<<"A","n","k","a","r","a">>, <<"T","u","r","k","e","y">>>>,
    <<<<"U+0130","z","m","i","r">>, <<"T","u","r","k","e","y">>>>,
    <<<<"I","z","m","i","r">>, <<"T","u","r","k","e","y">>>>,
    <<<<"D","o","h","a">>, <<"Q","a","t","a","r">>>>,
    <<<<"D","u","b","a","i">>, <<"U","A","E">>>>,
    <<<<"A","b","u"," ","D","h","a","b","i">>, <<"U","A","E">>>>,
    <<<<"R","i","y","a","d","h">>, <<"S","a","u","d","i"," ","A","r","a","b","i","a">>>>,
    <<<<"J","e","d","d","a","h">>, <<"S","a","u","d","i"," ","A","r","a","b","i","a">>>>,
    <<<<"C","a","i","r","o">>, <<"E","g","y","p","t">>>>,
    <<<<"C","a","s","a","b","l","a","n","c","a">>, <<"M","o","r","o","c","c","o">>>>,
    <<<<"A","l","g","i","e","r","s">>, <<"A","l","g","e","r","i","a">>>>,
    <<<<"N","e","w"," ","Y","o","r","k">>, <<"U","S","A">>>>,
    <<<<"C","h","i","c","a","g","o">>, <<"U","S","A">>>>,
    <<<<"B","o","s","t","o","n">>, <<"U","S","A">>>>,
    <<<<"L","o","s"," ","A","n","g","e","l","e","s">>, <<"U","S","A">>>>,
    <<<<"W","a","s","h","i","n","g","t","o","n">>, <<"U","S","A">>>>,
    <<<<"M","i","a","m","i">>, <<"U","S","A">>>>,
    <<<<"S","a","n"," ","F","r","a","n","c","i","s","c","o">>, <<"U","S","A">>>>,
    <<<<"T","o","r","o","n","t","o">>, <<"C","a","n","a","d","a">>>>,
    <<<<"M","o","n","t","r","U+00E9","a","l">>, <<"C","a","n","a","d","a">>>>,
    <<<<"M","o","n","t","r","e","a","l">>, <<"C","a","n","a","d","a">>>>,
    <<<<"V","a","n","c","o","u","v","e","r">>, <<"C","a","n","a","d","a">>>>,
    <<<<"M","e","x","i","c","o"," ","C","i","t","y">>, <<"M","e","x","i","c","o">>>>,
    <<<<"G","u","a","d","a","l","a","j","a","r","a">>, <<"M","e","x","i","c","o">>>>,
    <<<<"M","o","n","t","e","r","r","e","y">>, <<"M","e","x","i","c","o">>>>,
    <<<<"S","a","n","t","i","a","g","o">>, <<"C","h","i","l","e">>>>,
    <<<<"B","u","e","n","o","s"," ","A","i","r","e","s">>, <<"A","r","g","e","n","t","i","n","a">>>>,
    <<<<"L","i","m","a">>, <<"P","e","r","u">>>>,
    <<<<"S","U+00E3","o"," ","P","a","u","l","o">>, <<"B","r","a","z","i","l">>>>,
    <<<<"S","a","o"," ","P","a","u","l","o">>, <<"B","r","a","z","i","l">>>>,
    <<<<"R","i","o"," ","d","e"," ","J","a","n","e","i","r","o">>, <<"B","r","a","z","i","l">>>>,
    <<<<"J","a","k","a","r","t","a">>, <<"I","n","d","o","n","e","s","i","a">>>>,
    <<<<"M","a","n","i","l","a">>, <<"P","h","i","l","i","p","p","i","n","e","s">>>>,
    <<<<"B","a","n","g","k","o","k">>, <<"T","h","a","i","l","a","n","d">>>>,
    <<<<"S","i","n","g","a","p","o","r","e">>, <<"S","i","n","g","a","p","o","r","e">>>>,
    <<<<"H","o","n","g"," ","K","o","n","g">>, <<"C","h","i","n","a">>>>,
    <<<<"S","h","a","n","g","h","a","i">>, <<"C","h","i","n","a">>>>,
    <<<<"B","e","i","j","i","n","g">>, <<"C","h","i","n","a">>>>,
    <<<<"S","h","e","n","z","h","e","n">>, <<"C","h","i","n","a">>>>,
    <<<<"G","u","a","n","g","z","h","o","u">>, <<"C","h","i","n","a">>>>,
    <<<<"W","u","h","a","n">>, <<"C","h","i","n","a">>>>,
    <<<<"C","h","e","n","g","d","u">>, <<"C","h","i","n","a">>>>,
    <<<<"T","o","k","y","o">>, <<"J","a","p","a","n">>>>,
    <<<<"O","s","a","k","a">>, <<"J","a","p","a","n">>>>,
    <<<<"N","a","g","o","y","a">>, <<"J","a","p","a","n">>>>,
    <<<<"Y","o","k","o","h","a","m","a">>, <<"J","a","p","a","n">>>>,
    <<<<"F","u","k","u","o","k","a">>, <<"J","a","p","a","n">>>>,
    <<<<"S","e","o","u","l">>, <<"S","o","u","t","h"," ","K","o","r","e","a">>>>,
    <<<<"B","u","s","a","n">>, <<"S","o","u","t","h"," ","K","o","r","e","a">>>>,
    <<<<"I","n","c","h","e","o","n">>, <<"S","o","u","t","h"," ","K","o","r","e","a">>>>,
    <<<<"T","a","i","p","e","i">>, <<"T","a","i","w","a","n">>>>,
    <<<<"K","a","o","h","s","i","u","n","g">>, <<"T","a","i","w","a","n">>>>,
    <<<<"S","y","d","n","e","y">>, <<"A","u","s","t","r","a","l","i","a">>>>,
    <<<<"M","e","l","b","o","u","r","n","e">>, <<"A","u","s","t","r","a","l","i","a">>>>,
    <<<<"P","e","r","t","h">>, <<"A","u","s","t","r","a","l","i","a">>>>,
    <<<<"B","r","i","s","b","a","n","e">>, <<"A","u","s","t","r","a","l","i","a">>>>,
    <<<<"A","u","c","k","l","a","n","d">>, <<"N","e","w"," ","Z","e","a","l","a","n","d">>>>,
    <<<<"W","e","l","l","i","n","g","t","o","n">>, <<"N","e","w"," ","Z","e","a","l","a","n","d">>>>
  >>

\* URL fragment -> <<city, country>>, in declaration order
URL_CITY_HINTS ==
  <<
    <<<<"/","b","e","r","l","i","n","/">>, <<"B","e","r","l","i","n">>, <<"G","e","r","m","a","n","y">>>>,
    <<<<"/","m","u","e","n","c","h","e","n">>, <<"M","U+00FC","n","c","h","e","n">>, <<"G","e","r","m","a","n","y">>>>,
    <<<<"/","p","r","a">>, <<"P","r","a","h","a">>, <<"C","z","e","c","h"," ","R","e","p","u","b","l","i","c">>>>,
    <<<<"/","w","a","r","s","c","h","a","u">>, <<"W","a","r","s","z","a","w","a">>, <<"P","o","l","a","n","d">>>>,
    <<<<"/","l","o","n","d","o","n">>, <<"L","o","n","d","o","n">>, <<"U","n","i","t","e","d"," ","K","i","n","g","d","o","m">>>>,
    <<<<"/","p","a","r">>, <<"P","a","r","i","s">>, <<"F","r","a","n","c","e">>>>,
    <<<<"/","m","a","d">>, <<"M","a","d","r","i","d">>, <<"S","p","a","i","n">>>>,
    <<<<"/","b","a","r">>, <<"B","a","r","c","e","l","o","n","a">>, <<"S","p","a","i","n">>>>
  >>
---------------------------------------------------------------------------
(* HTML documents and CSS selection (BeautifulSoup) *)

\* One simple CSS selector of the configuration: an optional ancestor (a tag
\* name or ".class"), and the element's own tag, class and attribute; "" is
\* "not required".  "h2 a" is Sel("h2", "a", "", "").
Sel(anc, tag, cls, attr) == [anc |-> anc, tag |-> tag, cls |-> cls, attr |-> attr]

\* An element of a document is [tag, anc, cls, attrs, text]: its tag name,
\* the tag names and ".class" names of its ancestors inside the scope, its
\* classes, its attributes (a function from attribute names to text) and
\* the text get_text() returns for it.
Matches(sel, el) ==
    /\ sel.tag = "" \/ el.tag = sel.tag
    /\ sel.cls = "" \/ sel.cls \in el.cls
    /\ sel.attr = "" \/ sel.attr \in DOMAIN el.attrs
    /\ sel.anc = "" \/ sel.anc \in el.anc

RECURSIVE first_match(_, _, _)
first_match(sel, scope, i) ==
    IF i > Len(scope) THEN <<>>
    ELSE IF Matches(sel, scope[i]) THEN <<scope[i]>>
    ELSE first_match(sel, scope, i + 1)

\* scope.select_one(sel): the first element of the scope, in document order,
\* that the selector matches, as a sequence of one element; <<>> is None.
select_one(sel, scope) == first_match(sel, scope, 1)

\* bool(el) of a select_one result: None is false, and a Tag is true whatever
\* its content.
Truthy(el) == el # <<>>

\* el.has_attr(name), el.get(name) (None is the empty text) and el.get_text()
has_attr(el, name) == name \in DOMAIN el[1].attrs

get(el, name) == IF name \in DOMAIN el[1].attrs THEN el[1].attrs[name] ELSE <<>>

get_text(el) == el[1].text

\* x or y, on text
Or(x, y) == IF x # <<>> THEN x ELSE y

\* dict.get(key, default)
dict_get(d, key, default) == IF key \in DOMAIN d THEN d[key] ELSE default

SOURCES ==
  <<
    [name |-> <<"I","R","J"," ","M","e","t","r","o">>,
     base |-> <<"h","t","t","p","s",":","/","/","w","w","w",".","r","a","i","l","j","o","u","r","n","a","l",".","c","o","m">>,
     url  |-> <<"h","t","t","p","s",":","/","/","w","w","w",".","r","a","i","l","j","o","u","r","n","a","l",".","c","o","m","/","t","a","g","/","m","e","t","r","o","/">>,
     list_selector  |-> <<Sel("", "article", "", "")>>,
     title_selector |-> <<Sel("h2", "a", "", ""), Sel("h3", "a", "", ""),
                          Sel(".entry-title", "a", "", "")>>,
     link_selector  |-> <<Sel("h2", "a", "", ""), Sel("h3", "a", "", ""),
                          Sel(".entry-title", "a", "", "")>>,
     date_selector  |-> <<Sel("", "time", "", ""), Sel("", "", "jeg_meta_date", ""),
                          Sel("", "", "post-date", "")>>],
    [name |-> <<"R","a","i","l","w","a","y"," ","G","a","z","e","t","t","e"," ","M","e","t","r","o">>,
     base |-> <<"h","t","t","p","s",":","/","/","w","w","w",".","r","a","i","l","w","a","y","g","a","z","e","t","t","e",".","c","o","m">>,
     url  |-> <<"h","t","t","p","s",":","/","/","w","w","w",".","r","a","i","l","w","a","y","g","a","z","e","t","t","e",".","c","o","m","/","m","e","t","r","o">>,
     list_selector  |-> <<Sel("", "article", "", ""), Sel("", "", "listingResult", ""),
                          Sel("", "", "article", "")>>,
     title_selector |-> <<Sel("h3", "a", "", ""), Sel("h2", "a", "", ""),
                          Sel(".headline", "a", "", ""), Sel("", "a", "link", "")>>,
     link_selector  |-> <<Sel("h3", "a", "", ""), Sel("h2", "a", "", ""),
                          Sel(".headline", "a", "", ""), Sel("", "a", "link", "")>>,
     date_selector  |-> <<Sel("", "time", "", ""), Sel("", "", "date", ""),
                          Sel("", "time", "", "datetime")>>],
    [name |-> <<"U","r","b","a","n","R","a","i","l"," ","N","e","w","s">>,
     base |-> <<"h","t","t","p","s",":","/","/","w","w","w",".","u","r","b","a","n","r","a","i","l",".","n","e","t">>,
     url  |-> <<"h","t","t","p","s",":","/","/","w","w","w",".","u","r","b","a","n","r","a","i","l",".","n","e","t","/","n","e","w","s",".","h","t","m">>,
     list_selector  |-> <<Sel("", "p", "", ""), Sel("", "li", "", "")>>,
     title_selector |-> <<Sel("", "a", "", "")>>,
     link_selector  |-> <<Sel("", "a", "", "")>>,
     date_selector  |-> <<>>]
  >>

\* The source whose article pages are never fetched
UrbanRailNews == <<"U","r","b","a","n","R","a","i","l"," ","N","e","w","s">>

---------------------------------------------------------------------------
(* Hilfsfunktionen *)

RECURSIVE pick_from(_, _, _)
pick_from(sel_list, scope, n) ==
    IF n > Len(sel_list) THEN <<>>
    ELSE LET el == select_one(sel_list[n], scope)
         IN  IF Truthy(el) THEN el ELSE pick_from(sel_list, scope, n + 1)

RECURSIVE pick_text_from(_, _, _)
pick_text_from(sel_list, scope, n) ==
    IF n > Len(sel_list) THEN <<>>
    ELSE LET el == select_one(sel_list[n], scope)
         IN  IF Truthy(el) /\ clean(get_text(el)) # <<>> THEN el
             ELSE pick_text_from(sel_list, scope, n + 1)

\* pick, were an element without text passed over for the next alternative
pick_skipping_empty_text(sel_list, scope) == pick_text_from(sel_list, scope, 1)

\* pick(sel_list, scope): the element of the first alternative that selects
\* one; <<>> is None
pick(sel_list, scope) == pick_from(sel_list, scope, 1)

\* Position p of t (between t[p-1] and t[p]) is a word boundary \b
word_boundary(t, p) ==
    LET before == p > 1 /\ is_word_char(t[p - 1])
        after  == p <= Len(t) /\ is_word_char(t[p])
    IN  before # after

\* search_city, were the pattern written without the two \b
search_city_without_boundaries(city, t) ==
    \E i \in 1..(Len(t) - Len(city) + 1) :
        \A j \in 1..Len(city) : fold_char(t[i + j - 1]) = fold_char(city[j])

\* re.search(rf"\b{re.escape(city)}\b", t, flags=re.IGNORECASE) finds a match
search_city(city, t) ==
    \E i \in 1..(Len(t) - Len(city) + 1) :
        /\ fold_char(t[i]) = fold_char(city[1])
        /\ \A j \in 1..Len(city) : fold_char(t[i + j - 1]) = fold_char(city[j])
        /\ word_boundary(t, i)
        /\ word_boundary(t, i + Len(city))

\* The least element of a non-empty set of numbers
Min(S) == CHOOSE n \in S : \A m \in S : n <= m

\* Index of the first city of CITY_TO_COUNTRY, in declaration order, found in
\* t; 0 when none is
first_city(t) ==
    LET found == {n \in DOMAIN CITY_TO_COUNTRY : search_city(CITY_TO_COUNTRY[n][1], t)}
    IN  IF found = {} THEN 0 ELSE Min(found)

\* Index of the first URL hint, in declaration order, whose key is in u; 0
\* when none is
first_hint(u) ==
    LET found == {n \in DOMAIN URL_CITY_HINTS : Contains(URL_CITY_HINTS[n][1], u)}
    IN  IF found = {} THEN 0 ELSE Min(found)

\* find_city_country(text, url) -> <<city, country>>
find_city_country(text, url) ==
    LET c == first_city(text)
    IN  IF c # 0 THEN <<CITY_TO_COUNTRY[c][1], CITY_TO_COUNTRY[c][2]>>
        ELSE LET h == first_hint(lower(url))
             IN  IF h # 0 THEN <<URL_CITY_HINTS[h][2], URL_CITY_HINTS[h][3]>>
                 ELSE <<<<>>, <<>>>>

RECURSIVE modes_from(_, _)
modes_from(t, n) ==
    IF n > Len(TYPE_MAP) THEN <<>>
    ELSE (IF AnyIn(TYPE_MAP[n][2], t) THEN <<TYPE_MAP[n][1]>> ELSE <<>>)
         \o modes_from(t, n + 1)

\* detect_modes(text): the matching mode tags, in TYPE_MAP order
detect_modes(text) == modes_from(lower(text), 1)

\* detect_type_bucket(text)
detect_type_bucket(text) ==
    LET t == lower(text)
        has_infra == AnyIn(TYPE_INFRA, t)
        has_fleet == AnyIn(TYPE_FLEET, t)
    IN  IF has_infra /\ has_fleet THEN <<"g","e","m","i","s","c","h","t">>
        ELSE IF has_infra THEN <<"i","n","f","r","a","s","t","r","u","k","t","u","r">>
        ELSE IF has_fleet THEN <<"f","l","o","t","t","e">>
        ELSE <<>>

RECURSIVE status_from(_, _)
status_from(t, n) ==
    IF n > Len(STATUS_KEYS) THEN <<>>
    ELSE IF AnyIn(STATUS_KEYS[n][2], t) THEN STATUS_KEYS[n][1]
    ELSE status_from(t, n + 1)

RECURSIVE status_from_last(_, _)
status_from_last(t, n) ==
    IF n < 1 THEN <<>>
    ELSE IF AnyIn(STATUS_KEYS[n][2], t) THEN STATUS_KEYS[n][1]
    ELSE status_from_last(t, n - 1)

\* detect_status, were the table walked from its end
detect_status_reversed(text) == status_from_last(lower(text), Len(STATUS_KEYS))

\* detect_status(text)
detect_status(text) == status_from(lower(text), 1)

\* A response of http_get(url): [kind |-> "error"] is a raised exception
\* (network error, non-2xx status, timeout); otherwise the body, as the
\* document BeautifulSoup builds from it: parses is FALSE when the parser
\* rejects the markup (BeautifulSoup raises), elems are the document's
\* elements in document order (for a listing page: its containers).
HttpError == [kind |-> "error"]

Html(parses, elems) == [kind |-> "html", parses |-> parses, elems |-> elems]

\* A result of a function that may raise: the value, or the exception
Return(v) == [raised |-> FALSE, value |-> v]

Raise == [raised |-> TRUE]

\* urlsplit raises ValueError("Invalid IPv6 URL") for a reference whose host
\* opens a bracket and does not close it.
urljoin_raises(href) ==
    Contains(<<"/","/","[">>, href) /\ ~Contains(<<"]">>, href)

\* urljoin(base, href), for a base without a path and a reference that is
\* empty, an absolute URL, an absolute path or a relative path
urljoin(base, href) ==
    IF href = <<>> THEN base
    ELSE IF Contains(<<":","/","/">>, href) THEN href
    ELSE IF href[1] = "/" THEN base \o href
    ELSE base \o <<"/">> \o href

\* parse_article_page(url), given the response to its request.  Only the
\* request is inside the try block; BeautifulSoup(html, "lxml") is not.
parse_article_page(resp) ==
    IF resp.kind = "error" THEN Return(<<>>)
    ELSE IF ~resp.parses THEN Raise
    ELSE LET soup == resp.elems
             time_dt == select_one(Sel("", "time", "", "datetime"), soup)
             time_el == IF Truthy(time_dt) THEN time_dt
                        ELSE select_one(Sel("", "time", "", ""), soup)
             date_txt == IF Truthy(time_el)
                         THEN clean(Or(get(time_el, "datetime"), get_text(time_el)))
                         ELSE <<>>
             art_p == select_one(Sel("article", "p", "", ""), soup)
             p == IF Truthy(art_p) THEN art_p ELSE select_one(Sel("", "p", "", ""), soup)
             details == IF Truthy(p) THEN clean(get_text(p)) ELSE <<>>
         IN  Return([pubdate |-> date_txt, details |-> details])

---------------------------------------------------------------------------
(* Scraper *)

Row(datum, quelle, titel, link, land, stadt, projekttyp, status, details) ==
    [Datum |-> datum, Quelle |-> quelle, Titel |-> titel, Link |-> link, Land |-> land,
     Stadt |-> stadt, Projekttyp |-> projekttyp, Status |-> status, Details |-> details]

\* The body of parse_list's loop for one block: Return(<<>>) is "continue",
\* Return(<<row>>) is the appended row, Raise an exception leaving parse_list.
\* art is the response to the article page's request, today the value of
\* datetime.utcnow().date().isoformat().
parse_block(cfg, block, art, today) ==
    LET title_el == pick(cfg.title_selector, block)
        link_el  == pick(cfg.link_selector, block)
        date_el  == IF cfg.date_selector # <<>> THEN pick(cfg.date_selector, block) ELSE <<>>
        title == IF Truthy(title_el) THEN clean(get_text(title_el)) ELSE <<>>
        href  == IF Truthy(link_el) /\ has_attr(link_el, "href")
                 THEN <<get(link_el, "href")>> ELSE <<>>
        date  == IF Truthy(date_el)
                 THEN clean(Or(get(date_el, "datetime"), get_text(date_el))) ELSE <<>>
    IN  IF href # <<>> /\ urljoin_raises(href[1]) THEN Raise
        ELSE
        LET link == IF href # <<>> THEN urljoin(cfg.base, href[1]) ELSE <<>>
        IN  IF title = <<>> /\ link = <<>> THEN Return(<<>>)
            ELSE
            LET fetch == link # <<>> /\ cfg.name # UrbanRailNews
                page  == IF fetch THEN parse_article_page(art) ELSE Return(<<>>)
            IN  IF page.raised THEN Raise
                ELSE
                LET meta    == page.value
                    details == dict_get(meta, "details", <<>>)
                    pubdate == dict_get(meta, "pubdate", <<>>)
                    text_for_nlp == Join(<<" ">>, <<title, details>>)
                    loc    == find_city_country(text_for_nlp, link)
                    bucket == detect_type_bucket(text_for_nlp)
                    status == detect_status(text_for_nlp)
                    modes  == detect_modes(text_for_nlp)
                    proj_type == IF bucket = <<>> /\ modes # <<>>
                                 THEN Join(<<",">>, modes) ELSE bucket
                IN  Return(<<Row(Or(pubdate, Or(date, today)), cfg.name, title,
                                 Or(link, cfg.url), loc[2], loc[1], proj_type, status,
                                 details)>>)

RECURSIVE parse_blocks(_, _, _, _, _)
parse_blocks(cfg, blocks, arts, today, i) ==
    IF i > Len(blocks) THEN Return(<<>>)
    ELSE LET r == parse_block(cfg, blocks[i].elems, arts[i], today)
         IN  IF r.raised THEN Raise
             ELSE LET rest == parse_blocks(cfg, blocks, arts, today, i + 1)
                  IN  IF rest.raised THEN Raise ELSE Return(r.value \o rest.value)

\* soup.select(list_selector): the containers any alternative matches, in
\* document order
select(sel_list, soup) ==
    SelectSeq(soup, LAMBDA c : \E n \in DOMAIN sel_list : Matches(sel_list[n], c))

\* parse_list(cfg), given the response to the listing request and, for the
\* i-th block, the response arts[i] to its article request.  The value is
\* [items, printed]: the rows and the lines printed.
parse_list(cfg, listing, arts, today) ==
    IF listing.kind = "error"
    THEN Return([items |-> <<>>, printed |-> << <<"WARN", cfg.name>> >>])
    ELSE IF ~listing.parses THEN Raise
    ELSE LET r == parse_blocks(cfg, select(cfg.list_selector, listing.elems), arts, today, 1)
         IN  IF r.raised THEN Raise
             ELSE Return([items |-> r.value, printed |-> <<>>])

---------------------------------------------------------------------------
(* The CSV file and pandas *)

\* The missing value of pandas (NaN); it is no text.
NaN == <<"NaN">>

\* The missing timestamp of pandas (NaT): below every parsed date
NaT == -1

\* OUTPUT_CSV on disk: no file, a file read_csv cannot load, or a table whose
\* cells are text
Absent == [kind |-> "absent"]

Malformed == [kind |-> "malformed"]

Csv(rows) == [kind |-> "csv", rows |-> rows]

Cols == {"Datum", "Quelle", "Titel", "Link", "Land", "Stadt", "Projekttyp", "Status", "Details"}

\* Cell texts pd.read_csv loads as NaN (of its default list, those of the
\* modelled alphabet)
NaValues == {<<>>, <<"N","A">>, <<"N","/","A">>, <<"N","a","N">>, <<"n","a","n">>, <<"n","u","l","l">>, <<"N","U","L","L">>, <<"N","o","n","e">>}

\* pd.read_csv, one cell
read_cell(s) == IF s \in NaValues THEN NaN ELSE s

\* DataFrame.to_csv, one cell: NaN is written as the empty text
write_cell(v) == IF v = NaN THEN <<>> ELSE v

\* pd.read_csv(path) of a table
read_csv(rows) == [i \in DOMAIN rows |-> [c \in Cols |-> read_cell(rows[i][c])]]

\* df.to_csv(path)
to_csv(df) == Csv([i \in DOMAIN df |-> [c \in Cols |-> write_cell(df[i][c])]])

RECURSIVE keep_rows(_, _, _)
keep_rows(df, keep, i) ==
    IF i > Len(df) THEN <<>>
    ELSE (IF i \in keep THEN <<df[i]>> ELSE <<>>) \o keep_rows(df, keep, i + 1)

\* df.drop_duplicates(subset=["Link","Titel"], keep="first"); NaN equals NaN
drop_duplicates(df) ==
    keep_rows(df, {i \in DOMAIN df :
                      \A j \in 1..(i - 1) :
                          ~(df[j].Link = df[i].Link /\ df[j].Titel = df[i].Titel)}, 1)

Digits == <<"0", "1", "2", "3", "4", "5", "6", "7", "8", "9">>

digit(c) == (CHOOSE d \in DOMAIN Digits : Digits[d] = c) - 1

\* pd.to_datetime(value, errors="coerce"), for the texts of the modelled
\* dates: an ISO calendar date YYYY-MM-DD parses (to a number ordered as the
\* dates are), anything else, NaN included, is NaT.
to_datetime(v) ==
    IF /\ v # NaN
       /\ Len(v) = 10
       /\ v[5] = "-" /\ v[8] = "-"
       /\ \A i \in {1, 2, 3, 4, 6, 7, 9, 10} : v[i] \in Range(Digits)
    THEN LET y == 1000 * digit(v[1]) + 100 * digit(v[2]) + 10 * digit(v[3]) + digit(v[4])
             m == 10 * digit(v[6]) + digit(v[7])
             d == 10 * digit(v[9]) + digit(v[10])
         IN  IF m \in 1..12 /\ d \in 1..31 THEN 10000 * y + 100 * m + d ELSE NaT
    ELSE NaT

RECURSIVE descending_orders(_)
\* Every order of the rows of S that is descending by date
descending_orders(S) ==
    IF S = {} THEN {<<>>}
    ELSE LET top == {r \in S : \A q \in S : to_datetime(q.Datum) <= to_datetime(r.Datum)}
         IN  UNION {{<<r>> \o s : s \in descending_orders(S \ {r})} : r \in top}

RECURSIVE ascending_orders(_)
ascending_orders(S) ==
    IF S = {} THEN {<<>>}
    ELSE LET low == {r \in S : \A q \in S : to_datetime(r.Datum) <= to_datetime(q.Datum)}
         IN  UNION {{<<r>> \o s : s \in ascending_orders(S \ {r})} : r \in low}

\* sort_values, were ascending left at its default
sort_values_ascending(df) ==
    LET dated == {df[i] : i \in {j \in DOMAIN df : to_datetime(df[j].Datum) # NaT}}
        nat   == SelectSeq(df, LAMBDA r : to_datetime(r.Datum) = NaT)
    IN  {s \o nat : s \in ascending_orders(dated)}

\* df.sort_values("Datum_sort", ascending=False): descending by parsed date,
\* NaT rows last in their order in df; quicksort is not stable, so rows of
\* equal date come in any order.
sort_values(df) ==
    LET dated == {df[i] : i \in {j \in DOMAIN df : to_datetime(df[j].Datum) # NaT}}
        nat   == SelectSeq(df, LAMBDA r : to_datetime(r.Datum) = NaT)
    IN  {s \o nat : s \in descending_orders(dated)}

\* merged_frame, were the new rows dropped with the file that failed to load
merged_frame_losing_rows(rows, f) ==
    IF f.kind = "csv" THEN read_csv(f.rows) \o rows
    ELSE IF f.kind = "malformed" THEN <<>> ELSE rows

\* The frame write_csv merges into: the prior rows followed by the new rows
\* when the file exists and loads, the new rows alone otherwise
merged_frame(rows, f) == IF f.kind = "csv" THEN read_csv(f.rows) \o rows ELSE rows

\* write_csv(rows, path): the contents it may leave in the file
write_csv(rows, f) ==
    {to_csv(df) : df \in sort_values(drop_duplicates(merged_frame(rows, f)))}

---------------------------------------------------------------------------
(* Inputs of the orchestrator: the web as the runs find it *)

\* <a href=...>text</a> below an ancestor (tag or ".class"; "" for none)
Anchor(anc, href, text) ==
    [tag |-> "a", anc |-> {anc} \ {""}, cls |-> {}, attrs |-> ("href" :> href),
     text |-> text]

\* <time datetime=...>text</time>
TimeAttr(dt, text) ==
    [tag |-> "time", anc |-> {}, cls |-> {}, attrs |-> ("datetime" :> dt), text |-> text]

\* <time>text</time>
TimeText(text) == [tag |-> "time", anc |-> {}, cls |-> {}, attrs |-> <<>>, text |-> text]

\* <p>text</p>
Para(text) == [tag |-> "p", anc |-> {}, cls |-> {}, attrs |-> <<>>, text |-> text]

\* A container of a listing page, with the elements below it
Container(tag, elems) ==
    [tag |-> tag, anc |-> {}, cls |-> {}, attrs |-> <<>>, text |-> <<>>, elems |-> elems]

\* datetime.utcnow().date().isoformat() during the runs
Today == <<"2","0","2","4","-","0","7","-","0","1">>

\* The listing pages the three sites may serve, and the responses to the
\* article requests of each.  IRJ: an article with a title and a date, an
\* article with an empty title and an unparsable date, an article whose link
\* is a malformed URL.  Railway Gazette: a container the list selector does
\* not match, an article, an article that links to the first IRJ article
\* under the same title, and an article whose link is a malformed URL.
\* UrbanRail: a paragraph with a link.
RunListings ==
  <<
    { HttpError,
      Html(TRUE, <<Container("article",
                     <<Anchor("h2", <<"/","a","1">>, <<" ">> \o <<"W","i","e","n">> \o <<"\n", " ">> \o <<"t","e","n","d","e","r">>),
                       TimeAttr(<<"2","0","2","4","-","0","5","-","0","1">>, <<"1"," ","M","a","y">>)>>)>>),
      Html(TRUE, <<Container("article", <<Anchor("h2", <<"/","a","2">>, <<>>), TimeText(<<"T","B","D">>)>>)>>),
      Html(TRUE, <<Container("article", <<Anchor("h2", <<"h","t","t","p",":","/","/","[">>, <<"x">>)>>)>>) },
    { HttpError,
      Html(TRUE, <<Container("div", <<Anchor("h3", <<"/","g","0">>, <<"M","e","t","r","o">>)>>)>>),
      Html(TRUE, <<Container("article",
                     <<Anchor("h3", <<"/","g","1">>, <<"O","s","l","o"," ","m","e","t","r","o">>), TimeText(<<"2","0","2","4","-","0","5","-","0","1">>)>>)>>),
      Html(TRUE, <<Container("article",
                     <<Anchor("h3", <<"h","t","t","p","s",":","/","/","w","w","w",".","r","a","i","l","j","o","u","r","n","a","l",".","c","o","m","/","a","1">>, <<"W","i","e","n"," ","t","e","n","d","e","r">>),
                       TimeText(<<"2","0","2","4","-","0","5","-","0","1">>)>>)>>),
      Html(TRUE, <<Container("article", <<Anchor("h3", <<"h","t","t","p",":","/","/","[">>, <<"x">>)>>)>>) },
    { HttpError,
      Html(TRUE, <<Container("p", <<Anchor("", <<"/","b","e","r","l","i","n","/","u","5",".","h","t","m">>, <<"U","5"," ","o","p","e","n","i","n","g">>)>>)>>) }
  >>

RunArticles ==
  <<
    { HttpError,
      Html(TRUE, <<TimeAttr(<<"2","0","2","4","-","0","6","-","1","5">>, <<>>), Para(<<"n","e","w"," ","t","r","a","i","n","s">>)>>),
      Html(FALSE, <<>>) },
    { HttpError,
      Html(TRUE, <<Para(<<"t","u","n","n","e","l">>)>>) },
    { HttpError }
  >>

\* What parse_list(SOURCES[i]) can do, over the site's listings and articles
ParseListOutcomes ==
    [i \in DOMAIN SOURCES |->
        {parse_list(SOURCES[i], l, <<a>>, Today) : l \in RunListings[i], a \in RunArticles[i]}]

---------------------------------------------------------------------------
(* main(), run after run *)

MaxRuns == 2

Init ==
    /\ pc = "loop"
    /\ run = 1
    /\ idx = 1
    /\ all_rows = <<>>
    /\ file \in {Absent, Malformed}
    /\ file0 = file
    /\ out = <<>>
    /\ trace = <<>>
    /\ fn = ""
    /\ arg = <<>>
    /\ ret = <<>>

\* One iteration of "for cfg in SOURCES": parse_list, extend, sleep.  An
\* exception leaving parse_list leaves main(): the process ends.
ProcessSource ==
    /\ pc = "loop"
    /\ \E o \in ParseListOutcomes[idx] :
          IF o.raised
          THEN /\ pc' = "crashed"
               /\ trace' = Append(trace, <<"source", idx>>)
               /\ UNCHANGED <<idx, all_rows, out>>
          ELSE /\ all_rows' = all_rows \o o.value.items
               /\ out' = out \o o.value.printed
               /\ trace' = trace \o << <<"source", idx>>, <<"sleep", idx>> >>
               /\ idx' = idx + 1
               /\ pc' = IF idx = Len(SOURCES) THEN "check" ELSE "loop"
    /\ UNCHANGED <<run, file, file0, fn, arg, ret>>

\* NoRecords, were write_csv called before the test of all_rows
NoRecordsAfterWrite ==
    /\ pc = "check"
    /\ all_rows = <<>>
    /\ \E f \in write_csv(all_rows, file) : file' = f
    /\ trace' = trace \o << <<"load", 0>>, <<"to_csv", 0>> >>
    /\ out' = Append(out, <<"Keine Artikel gefunden", <<>>>>)
    /\ pc' = "done"
    /\ UNCHANGED <<run, idx, all_rows, file0, fn, arg, ret>>

\* "if not all_rows": print and return
NoRecords ==
    /\ pc = "check"
    /\ all_rows = <<>>
    /\ out' = Append(out, <<"Keine Artikel gefunden", <<>>>>)
    /\ pc' = "done"
    /\ UNCHANGED <<run, idx, all_rows, file, file0, trace, fn, arg, ret>>

\* write_csv(all_rows, OUTPUT_CSV) and the closing print
Persist ==
    /\ pc = "check"
    /\ all_rows # <<>>
    /\ \E f \in write_csv(all_rows, file) : file' = f
    /\ trace' = trace \o << <<"load", 0>>, <<"to_csv", 0>> >>
    /\ out' = Append(out, <<"Artikel verarbeitet", <<Len(all_rows)>> >>)
    /\ pc' = "done"
    /\ UNCHANGED <<run, idx, all_rows, file0, fn, arg, ret>>

\* The next invocation of the script
StartRun ==
    /\ pc \in {"done", "crashed"}
    /\ run < MaxRuns
    /\ run' = run + 1
    /\ pc' = "loop"
    /\ idx' = 1
    /\ all_rows' = <<>>
    /\ out' = <<>>
    /\ trace' = <<>>
    /\ file0' = file
    /\ UNCHANGED <<file, fn, arg, ret>>

Next == ProcessSource \/ NoRecords \/ Persist \/ StartRun

Spec == Init /\ [][Next]_vars

---------------------------------------------------------------------------
(* Harnesses of the pure functions: the inputs are drawn in the initial    *)
(* state, one action applies the function.                                 *)

\* main() is not running
Idle ==
    /\ pc = "idle"
    /\ run = 0
    /\ idx = 0
    /\ all_rows = <<>>
    /\ file = Absent
    /\ file0 = Absent
    /\ out = <<>>
    /\ trace = <<>>

main_vars == <<pc, run, idx, all_rows, file, file0, out, trace>>

RECURSIVE Seqs(_, _)
\* The sequences of at most n elements of S
Seqs(S, n) ==
    IF n = 0 THEN {<<>>}
    ELSE LET shorter == Seqs(S, n - 1)
         IN  shorter \cup {Append(s, x) : s \in shorter, x \in S}

\* Words joined by single spaces
Sentence(words) == Join(<<" ">>, words)

MaxWords == 2

\* Words with keywords of each status, a keyword inside a longer word
\* ("airplane"), upper case, and a word with no keyword
StatusWords ==
    { <<"t","e","n","d","e","r">>, <<"c","o","n","s","t","r","u","c","t","i","o","n">>, <<"O","p","e","n","i","n","g">>, <<"D","E","L","A","Y">>, <<"f","u","n","d","i","n","g">>, <<"a","i","r","p","l","a","n","e">>,
      <<"B","a","u","b","e","g","i","n","n">>, <<"t","r","a","m">> }

StatusTexts == {Sentence(w) : w \in Seqs(StatusWords, MaxWords)}

InitStatus == Idle /\ fn = "" /\ arg \in StatusTexts /\ ret = <<>>

CallDetectStatus ==
    /\ fn = ""
    /\ fn' = "detect_status"
    /\ ret' = detect_status(arg)
    /\ UNCHANGED <<arg, main_vars>>

SpecStatus == InitStatus /\ [][CallDetectStatus]_vars

\* City names in other case, inside longer words, next to punctuation, of
\* several words, and words that name no city
CityWords ==
    { <<"M","u","n","i","c","h">>, <<"b","e","r","l","i","n">>, <<"B","e","r","l","i","n","e","r">>, <<"N","e","w"," ","Y","o","r","k">>, <<"y","o","r","k">>, <<"P","a","r","i","s","-","N","o","r","d">>,
      <<"W","I","E","N",",">>, <<"R","o","m">> }

CityTexts == {Sentence(w) : w \in Seqs(CityWords, MaxWords)}

CityUrls ==
    { <<>>, <<"h","t","t","p","s",":","/","/","w","w","w",".","u","r","b","a","n","r","a","i","l",".","n","e","t","/","b","e","r","l","i","n","/","i","n","d","e","x",".","h","t","m">>,
      <<"h","t","t","p","s",":","/","/","w","w","w",".","u","r","b","a","n","r","a","i","l",".","n","e","t","/","e","u","/","P","A","R","/","p","a","r","i","s",".","h","t","m">>,
      <<"h","t","t","p","s",":","/","/","e","x","a","m","p","l","e",".","o","r","g","/","b","a","r","/","m","a","d","r","i","d",".","h","t","m">>, <<"h","t","t","p","s",":","/","/","w","w","w",".","u","r","b","a","n","r","a","i","l",".","n","e","t","/","n","e","w","s",".","h","t","m">> }

InitLocate == Idle /\ fn = "" /\ arg \in CityTexts \X CityUrls /\ ret = <<>>

CallFindCityCountry ==
    /\ fn = ""
    /\ fn' = "find_city_country"
    /\ ret' = find_city_country(arg[1], arg[2])
    /\ UNCHANGED <<arg, main_vars>>

SpecLocate == InitLocate /\ [][CallFindCityCountry]_vars

MaxElems == 2

MaxBlocks == 1

\* Elements of a list item: a headline link without href, a headline link
\* with href and no text, a link of the next selector alternative, a date
ExtractElems ==
    { [tag |-> "a", anc |-> {"h2"}, cls |-> {}, attrs |-> <<>>, text |-> <<"N","e","w","s">>],
      Anchor("h2", <<"/","a","3">>, <<" ", "\n">>),
      Anchor("h3", <<"/","a","1">>, <<"W","i","e","n"," ","U","5">>),
      TimeAttr(<<"2","0","2","4","-","0","5","-","0","1">>, <<"1"," ","M","a","y">>) }

\* The tag of the list items on each site's listing page
ListTag == <<"article", "article", "li">>

ExtractListings(i) ==
    {HttpError} \cup
    {Html(TRUE, [k \in DOMAIN bs |-> Container(ListTag[i], bs[k])]) :
        bs \in Seqs(Seqs(ExtractElems, MaxElems), MaxBlocks)}

\* Responses to an article request: failed, rejected by the parser, a page
\* with date and text
ExtractArticles ==
    { HttpError,
      Html(FALSE, <<>>),
      Html(TRUE, <<TimeAttr(<<"2","0","2","4","-","0","6","-","1","5">>, <<>>), Para(<<"n","e","w"," ","t","r","a","i","n","s">>)>>) }

InitExtract ==
    /\ Idle
    /\ fn = ""
    /\ \E i \in DOMAIN SOURCES : \E l \in ExtractListings(i) : \E a \in ExtractArticles :
          arg = [src |-> i, listing |-> l, arts |-> [k \in 1..MaxBlocks |-> a]]
    /\ ret = <<>>

CallParseList ==
    /\ fn = ""
    /\ fn' = "parse_list"
    /\ ret' = parse_list(SOURCES[arg.src], arg.listing, arg.arts, Today)
    /\ UNCHANGED <<arg, main_vars>>

SpecExtract == InitExtract /\ [][CallParseList]_vars

---------------------------------------------------------------------------
(* Properties *)

KeyOf(r) == <<r.Link, r.Titel>>

\* The rows on disk when the run started (none when there was no file, or
\* one that does not load)
PriorRows == IF file0.kind = "csv" THEN file0.rows ELSE <<>>

\* The run went through write_csv
Merged == pc = "done" /\ all_rows # <<>>

\* The rows of a sequence that are the first of their (Link, Titel) key
FirstPerKey(rows) ==
    {rows[i] : i \in {k \in DOMAIN rows :
                         \A j \in 1..(k - 1) : KeyOf(rows[j]) # KeyOf(rows[k])}}

\* Descending by parsed date, every unparsable date after every parsable one
SortedByDate(rows) ==
    \A i, j \in DOMAIN rows :
        i < j => LET di == to_datetime(rows[i].Datum)
                     dj == to_datetime(rows[j].Datum)
                 IN  /\ (di # NaT /\ dj # NaT) => di >= dj
                     /\ di = NaT => dj = NaT

Events(kind) == {k \in DOMAIN trace : trace[k][1] = kind}

\* C1: after a merge the file holds exactly one row for each (Link, Titel)
\* key of the prior rows followed by the new rows, and that row is the first
\* occurrence of the key in that concatenation.
C1_OneRowPerKeyFirstWins ==
    Merged =>
        /\ file.kind = "csv"
        /\ LET cat == PriorRows \o all_rows
           IN  \A k \in {KeyOf(cat[i]) : i \in DOMAIN cat} :
                   LET first == cat[Min({i \in DOMAIN cat : KeyOf(cat[i]) = k})]
                       at    == {j \in DOMAIN file.rows : KeyOf(file.rows[j]) = k}
                   IN  Cardinality(at) = 1 /\ \A j \in at : file.rows[j] = first

\* C2: no failure raised while a source is processed aborts the run: main()
\* never ends by an exception of parse_list.
C2_NoSourceFailureAbortsRun == pc # "crashed"

\* C3: a run that processed all sources and collected no record reports it
\* and ends without loading or writing the file, which is as it was when the
\* run started; a run that collected a record calls write_csv, once.
C3_NoRecordsNoWrite ==
    pc = "done" =>
        IF all_rows = <<>>
        THEN /\ file = file0
             /\ Events("load") = {} /\ Events("to_csv") = {}
             /\ out # <<>> /\ out[Len(out)][1] = "Keine Artikel gefunden"
        ELSE /\ Cardinality(Events("to_csv")) = 1
             /\ out[Len(out)] = <<"Artikel verarbeitet", <<Len(all_rows)>> >>

\* A run over an existing dataset collected nothing and left it alone
C3_Witness == pc = "done" /\ all_rows = <<>> /\ file0.kind = "csv" /\ file = file0

\* C4: when the file is absent or does not load, the run ends normally and
\* the file holds the new rows alone: the first row of each key, sorted.
C4_LoadFailureIsEmptyPrior ==
    (Merged /\ file0.kind \in {"absent", "malformed"}) =>
        /\ file.kind = "csv"
        /\ Range(file.rows) = FirstPerKey(all_rows)
        /\ Len(file.rows) = Cardinality(FirstPerKey(all_rows))
        /\ SortedByDate(file.rows)

\* A file that did not load was overwritten by a batch holding a duplicate
C4_Witness ==
    /\ Merged
    /\ file0.kind = "malformed"
    /\ file.kind = "csv"
    /\ Len(file.rows) >= 2
    /\ Len(file.rows) < Len(all_rows)

\* C5: the written rows are descending by parsed date with the unparsable
\* dates last, and they are the deduplicated rows, none added or removed.
C5_WrittenSortedByDate ==
    /\ file.kind = "csv" => SortedByDate(file.rows)
    /\ Merged =>
          LET deduped == to_csv(drop_duplicates(merged_frame(all_rows, file0))).rows
          IN  /\ Len(file.rows) = Len(deduped)
              /\ Range(file.rows) = Range(deduped)

\* The spec's example: 2024-06-15, 2024-05-01, TBD, in this order
C5_Witness ==
    /\ file.kind = "csv"
    /\ [i \in DOMAIN file.rows |-> file.rows[i].Datum]
           = <<<<"2","0","2","4","-","0","6","-","1","5">>, <<"2","0","2","4","-","0","5","-","0","1">>, <<"T","B","D">>>>

\* The order of the statuses the claim states
ClaimedStatusOrder ==
    <<<<"P","l","a","n","u","n","g">>, <<"B","a","u">>, <<"E","r","U+00F6","f","f","n","u","n","g">>, <<"V","e","r","z","U+00F6","g","e","r","u","n","g">>, <<"F","i","n","a","n","z","i","e","r","u","n","g">>>>

KeywordsOf(status) ==
    STATUS_KEYS[CHOOSE n \in DOMAIN STATUS_KEYS : STATUS_KEYS[n][1] = status][2]

\* C7: detect_status returns the first status, in the order Planung, Bau,
\* Eroeffnung, Verzoegerung, Finanzierung, one of whose keywords is a
\* substring of the lower-cased text, and "" when there is none; a text with
\* "construction" and "tender" yields Planung.
C7_DetectStatusFirstInOrder ==
    fn = "detect_status" =>
        LET t   == lower(arg)
            hit == {k \in DOMAIN ClaimedStatusOrder :
                       AnyIn(KeywordsOf(ClaimedStatusOrder[k]), t)}
        IN  /\ ret = IF hit = {} THEN <<>> ELSE ClaimedStatusOrder[Min(hit)]
            /\ (Contains(<<"c","o","n","s","t","r","u","c","t","i","o","n">>, t) /\ Contains(<<"t","e","n","d","e","r">>, t))
                   => ret = <<"P","l","a","n","u","n","g">>

\* A Bau keyword before a Planung keyword in the text: Planung
C7_Witness ==
    /\ fn = "detect_status"
    /\ arg = <<"c","o","n","s","t","r","u","c","t","i","o","n"," ","t","e","n","d","e","r">>
    /\ ret = <<"P","l","a","n","u","n","g">>

\* The city occurs in t as a whole word, in any case
WholeWordIn(city, t) ==
    \E i \in 1..(Len(t) - Len(city) + 1) :
        /\ lower(SubSeq(t, i, i + Len(city) - 1)) = lower(city)
        /\ i = 1 \/ ~is_word_char(t[i - 1])
        /\ i + Len(city) > Len(t) \/ ~is_word_char(t[i + Len(city)])

\* C8: find_city_country returns the first city of the table, in declaration
\* order, that occurs in the text as a whole word in any case, with its
\* country, whatever the URL; when no city occurs, the mapping of the first
\* URL hint whose fragment is in the lower-cased URL; otherwise ("", "").
C8_LocatorTextThenUrl ==
    fn = "find_city_country" =>
        LET cities == {n \in DOMAIN CITY_TO_COUNTRY :
                          WholeWordIn(CITY_TO_COUNTRY[n][1], arg[1])}
            hints  == {n \in DOMAIN URL_CITY_HINTS :
                          Contains(URL_CITY_HINTS[n][1], lower(arg[2]))}
        IN  ret = IF cities # {}
                  THEN <<CITY_TO_COUNTRY[Min(cities)][1], CITY_TO_COUNTRY[Min(cities)][2]>>
                  ELSE IF hints # {}
                  THEN <<URL_CITY_HINTS[Min(hints)][2], URL_CITY_HINTS[Min(hints)][3]>>
                  ELSE <<<<>>, <<>>>>

\* Two cities in the text and a hint for a third in the URL: the city that
\* comes first in the table (Berlin), not the first in the text (Munich)
C8_Witness ==
    /\ fn = "find_city_country"
    /\ arg[1] = <<"M","u","n","i","c","h"," ","b","e","r","l","i","n">>
    /\ arg[2] = <<"h","t","t","p","s",":","/","/","w","w","w",".","u","r","b","a","n","r","a","i","l",".","n","e","t","/","e","u","/","P","A","R","/","p","a","r","i","s",".","h","t","m">>
    /\ ret = <<<<"B","e","r","l","i","n">>, <<"G","e","r","m","a","n","y">>>>

\* The harness of parse_list: its configuration, its blocks, its rows
ArgCfg == SOURCES[arg.src]

ArgBlocks ==
    LET cs == select(ArgCfg.list_selector, arg.listing.elems)
    IN  [k \in DOMAIN cs |-> cs[k].elems]

Extracted == fn = "parse_list" /\ arg.listing.kind = "html" /\ ~ret.raised

\* <<title, link>> of the rows a listing yields when each block's title and
\* link are T and L: the blocks with both empty are dropped, and the row of a
\* block without link carries the listing URL
RowsOf(cfg, blocks, T(_, _), L(_, _)) ==
    LET all  == [k \in DOMAIN blocks |-> <<T(cfg, blocks[k]), L(cfg, blocks[k])>>]
        kept == SelectSeq(all, LAMBDA p : ~(p[1] = <<>> /\ p[2] = <<>>))
    IN  [k \in DOMAIN kept |-> <<kept[k][1], Or(kept[k][2], cfg.url)>>]

\* The title by the claim: of the first alternative whose element has text
ClaimedTitle(cfg, block) ==
    LET ok == {n \in DOMAIN cfg.title_selector :
                  LET el == select_one(cfg.title_selector[n], block)
                  IN  Truthy(el) /\ clean(get_text(el)) # <<>>}
    IN  IF ok = {} THEN <<>>
        ELSE clean(get_text(select_one(cfg.title_selector[Min(ok)], block)))

\* The link by the claim: of the first alternative whose element has href
ClaimedLink(cfg, block) ==
    LET ok == {n \in DOMAIN cfg.link_selector :
                  LET el == select_one(cfg.link_selector[n], block)
                  IN  Truthy(el) /\ has_attr(el, "href")}
    IN  IF ok = {} THEN <<>>
        ELSE urljoin(cfg.base, get(select_one(cfg.link_selector[Min(ok)], block), "href"))

\* The title and the link of the first alternative that selects an element
FirstTitle(cfg, block) ==
    LET ok == {n \in DOMAIN cfg.title_selector :
                  Truthy(select_one(cfg.title_selector[n], block))}
    IN  IF ok = {} THEN <<>>
        ELSE clean(get_text(select_one(cfg.title_selector[Min(ok)], block)))

FirstLink(cfg, block) ==
    LET ok == {n \in DOMAIN cfg.link_selector :
                  Truthy(select_one(cfg.link_selector[n], block))}
    IN  IF ok = {} THEN <<>>
        ELSE LET el == select_one(cfg.link_selector[Min(ok)], block)
             IN  IF has_attr(el, "href") THEN urljoin(cfg.base, get(el, "href")) ELSE <<>>

ExtractedPairs == [k \in DOMAIN ret.value.items |->
                      <<ret.value.items[k].Titel, ret.value.items[k].Link>>]

\* C9, as claimed: in each block the title is that of the first title
\* alternative whose element has non-empty normalized text, the link that of
\* the first link alternative whose element has a link attribute, and the
\* candidate is dropped exactly when both are empty.
C9_FirstAlternativeWithText ==
    Extracted => ExtractedPairs = RowsOf(ArgCfg, ArgBlocks, ClaimedTitle, ClaimedLink)

\* C9, amended: in each block the title is the normalized text, empty or
\* not, of the element of the first title alternative that selects an
\* element, the link is that of the element of the first link alternative
\* that selects an element and is empty when this element has no link
\* attribute, and the candidate is dropped exactly when both are empty.
C9_FirstAlternativeThatSelects ==
    Extracted => ExtractedPairs = RowsOf(ArgCfg, ArgBlocks, FirstTitle, FirstLink)

\* A row with an empty title from a block whose later alternative had text
C9_Witness ==
    /\ Extracted
    /\ \E k \in DOMAIN ret.value.items : ret.value.items[k].Titel = <<>>
    /\ ExtractedPairs # RowsOf(ArgCfg, ArgBlocks, ClaimedTitle, ClaimedLink)

\* The date of a block on the listing page
ListingDate(cfg, block) ==
    LET el == IF cfg.date_selector # <<>> THEN pick(cfg.date_selector, block) ELSE <<>>
    IN  IF Truthy(el) THEN clean(Or(get(el, "datetime"), get_text(el))) ELSE <<>>

\* C6: for a source other than UrbanRail News, a failed request or a failed
\* parse of the article page leaves the row in place with empty details and
\* the listing date, else today's date; a date of the article page takes
\* precedence; UrbanRail News fetches no article page.
C6_ArticleFailureFallsBack ==
    (fn = "parse_list" /\ arg.listing.kind = "html") =>
        LET cfg    == ArgCfg
            art    == arg.arts[1]
            failed == art.kind = "error" \/ ~art.parses
            page   == IF failed THEN <<>> ELSE parse_article_page(art).value
            kept   == SelectSeq(ArgBlocks, LAMBDA b :
                          ~(FirstTitle(cfg, b) = <<>> /\ FirstLink(cfg, b) = <<>>))
            fetched(b) == FirstLink(cfg, b) # <<>> /\ cfg.name # UrbanRailNews /\ ~failed
        IN  /\ ~ret.raised
            /\ Len(ret.value.items) = Len(kept)
            /\ \A k \in DOMAIN kept :
                  /\ ret.value.items[k].Details =
                        IF fetched(kept[k]) THEN page.details ELSE <<>>
                  /\ ret.value.items[k].Datum =
                        IF fetched(kept[k]) /\ page.pubdate # <<>> THEN page.pubdate
                        ELSE Or(ListingDate(cfg, kept[k]), Today)

IsPrefix(s, t) == Len(s) <= Len(t) /\ SubSeq(t, 1, Len(s)) = s

RECURSIVE SourceEvents(_)
SourceEvents(n) ==
    IF n = 0 THEN <<>> ELSE SourceEvents(n - 1) \o << <<"source", n>>, <<"sleep", n>> >>

\* The events of a run that processes every source and merges
FullTrace == SourceEvents(Len(SOURCES)) \o << <<"load", 0>>, <<"to_csv", 0>> >>

SourceIndex(name) == CHOOSE i \in DOMAIN SOURCES : SOURCES[i].name = name

\* C10: in every run the sources are processed one at a time in declaration
\* order, each followed by the delay; a run that collected a record loads
\* the file once and writes it once, the load before the write and the write
\* after every source; the rows of an earlier source stay, in order, ahead
\* of those of a later one.
C10_RunOrdering ==
    /\ IsPrefix(trace, FullTrace)
    /\ (pc \in {"done", "crashed"} /\ all_rows # <<>>) => trace = FullTrace
    /\ \A i, j \in DOMAIN all_rows :
          i < j => SourceIndex(all_rows[i].Quelle) <= SourceIndex(all_rows[j].Quelle)

=============================================================================
